---- MODULE Spec2Model ----
(***************************************************************************)
(* Model of Tutorial/denoizer_tutorial.ipynb: the volume loader            *)
(* (parquet2array) and the "Predict" cell, which rescales a seismic volume *)
(* and denoises it slice by slice along its last axis.                     *)
(*                                                                         *)
(* Numbers.  A sample is an extended rational <<n, d>>: d > 0 is the       *)
(* number n/d in lowest terms, <<0, 0>> is NaN, <<1, 0>> and <<-1, 0>> are *)
(* +Inf and -Inf.  Floating-point rounding is not modelled.                *)
(*                                                                         *)
(* Arrays.  A 2D array or tensor is its dims (the numpy / torch shape,     *)
(* with the notebook's real numbers) and img, the 2 x 2 lattice of the     *)
(* values of its four quadrants, img[row half][column half].  Bilinear     *)
(* interpolation carries quadrants to quadrants; the samples it blends     *)
(* across a quadrant border lie between the neighbouring quadrant values   *)
(* (or are NaN beside a NaN) and are not tracked.  A volume is its shape   *)
(* and, for each index of the last axis, the lattice of that slice.        *)
(***************************************************************************)
EXTENDS Integers, Sequences, FiniteSets, TLC

VARIABLES
    df,             \* loader: the table read from the parquet file
    original_shape, \* loader: the expected 3-tuple shape
    array,          \* loader: the array parquet2array returns
    lpc,            \* loader: "start", "returned" or "raised"
    SEISMIC_VOL,    \* the input volume of the Predict cell
    denoiser,       \* the loaded model (fixed for the whole run)
    minval, maxval, \* np.nanmin / np.nanmax of SEISMIC_VOL
    seismic,        \* the rescaled working buffer, overwritten slice by slice
    seismic_base,   \* whose memory seismic uses: "new", or the name of an array
    i,              \* loop index (0-based, as in range(...))
    input_sample,   \* the resized, then standardized slice
    x,              \* the tensor passed to the model
    pred,           \* the model's output on its way back to the buffer
    SEISMIC_PRED,   \* the clipped result
    pc,             \* position in the Predict cell
    err,            \* the exception that ended the cell, "" if none
    calls,          \* history: the indices the model was invoked for
    writes,         \* history: the indices written into seismic
    vpc,            \* visualize_seismic: "idle", "plotted" or "raised"
    figure          \* visualize_seismic: its locals (the three panels it shows)

loaderVars == <<df, original_shape, array, lpc>>
viewVars == <<vpc, figure>>
vars == <<df, original_shape, array, lpc, SEISMIC_VOL, denoiser, minval, maxval,
          seismic, seismic_base, i, input_sample, x, pred, SEISMIC_PRED, pc, err,
          calls, writes, vpc, figure>>

\* ------------------------------------------------------------------ bounds
MaxSlices == 2   \* a volume has 1..MaxSlices slices along its last axis
MaxRaw == 2      \* raw samples are NaN or an integer in 0..MaxRaw
MaxRows == 4     \* loader: rows of the table
MaxCols == 3     \* loader: data columns of the table
MaxDim == 2      \* loader: each dimension of the expected shape

\* ------------------------------------------------------- extended rationals
Abs(n) == IF n < 0 THEN -n ELSE n
Sign(n) == IF n < 0 THEN -1 ELSE IF n > 0 THEN 1 ELSE 0

RECURSIVE GCD(_, _)
GCD(a, b) == IF b = 0 THEN a ELSE GCD(b, a % b)

NaN == <<0, 0>>
PInf == <<1, 0>>
NInf == <<-1, 0>>
R(n) == <<n, 1>>

IsNaN(v) == v = NaN
IsInf(v) == v[2] = 0 /\ v[1] # 0
IsFinite(v) == v[2] # 0

\* n/d in lowest terms with a positive denominator (d # 0)
Q(n, d) ==
    LET g == GCD(Abs(n), Abs(d))
        s == Sign(d)
    IN  <<(s * n) \div g, (s * d) \div g>>

Neg(a) == <<-a[1], a[2]>>

Add(a, b) ==
    IF IsNaN(a) \/ IsNaN(b) THEN NaN
    ELSE IF IsInf(a) /\ IsInf(b) THEN (IF a = b THEN a ELSE NaN)
    ELSE IF IsInf(a) THEN a
    ELSE IF IsInf(b) THEN b
    ELSE Q(a[1] * b[2] + b[1] * a[2], a[2] * b[2])

Sub(a, b) == Add(a, Neg(b))

Mul(a, b) ==
    IF IsNaN(a) \/ IsNaN(b) THEN NaN
    ELSE IF IsInf(a) \/ IsInf(b)
         THEN (IF a[1] = 0 \/ b[1] = 0 THEN NaN ELSE <<Sign(a[1]) * Sign(b[1]), 0>>)
    ELSE Q(a[1] * b[1], a[2] * b[2])

\* IEEE division as numpy performs it: 0/0 is NaN and x/0 is +-Inf (a warning, no error)
Div(a, b) ==
    IF IsNaN(a) \/ IsNaN(b) THEN NaN
    ELSE IF IsInf(b) THEN (IF IsInf(a) THEN NaN ELSE R(0))
    ELSE IF b[1] = 0 THEN (IF a[1] = 0 THEN NaN ELSE <<Sign(a[1]), 0>>)
    ELSE IF IsInf(a) THEN <<Sign(a[1]) * Sign(b[1]), 0>>
    ELSE Q(a[1] * b[2], a[2] * b[1])

\* a < b, for values that are not NaN
Less(a, b) ==
    IF IsFinite(a) /\ IsFinite(b) THEN a[1] * b[2] < b[1] * a[2]
    ELSE IF IsInf(a) /\ IsInf(b) THEN a[1] < b[1]
    ELSE IF IsInf(a) THEN a[1] < 0
    ELSE b[1] > 0

\* ------------------------------------------------------------------ arrays
Img(a, b, c, d) == <<<<a, b>>, <<c, d>>>>
Cells == {<<1, 1>>, <<1, 2>>, <<2, 1>>, <<2, 2>>}
At(img, c) == img[c[1]][c[2]]
MapImg(F(_), img) == Img(F(img[1][1]), F(img[1][2]), F(img[2][1]), F(img[2][2]))
TransposeImg(img) == Img(img[1][1], img[2][1], img[1][2], img[2][2])
ImgValues(img) == {At(img, c) : c \in Cells}

Reverse(s) == [k \in 1..Len(s) |-> s[Len(s) + 1 - k]]

NoArray == [dims |-> <<>>, img |-> <<>>]
NoVolume == [shape |-> <<>>, slices |-> <<>>]
Undefined == <<>>
NoFigure == <<>>

NSlices(vol) == vol.shape[3]
VolValues(vol) == UNION {ImgValues(vol.slices[k]) : k \in 1..Len(vol.slices)}

\* ------------------------------------------------- numpy / cv2 / torch steps
Valid(S) == {v \in S : ~IsNaN(v)}
MinOf(S) == CHOOSE m \in S : \A v \in S : ~Less(v, m)
MaxOf(S) == CHOOSE m \in S : \A v \in S : ~Less(m, v)

\* faulty variant: np.min: a NaN sample makes the result NaN
nanmin_KeepsNaN(vol) ==
    IF NaN \in VolValues(vol) THEN NaN ELSE MinOf(VolValues(vol))

\* np.nanmin / np.nanmax: NaN samples are skipped; an all-NaN array gives NaN
nanmin(vol) == LET S == Valid(VolValues(vol)) IN IF S = {} THEN NaN ELSE MinOf(S)
nanmax(vol) == LET S == Valid(VolValues(vol)) IN IF S = {} THEN NaN ELSE MaxOf(S)

\* ((SEISMIC_VOL - minval) / (maxval - minval)) * 255, a new array
RescaleValue(v, lo, hi) == Mul(Div(Sub(v, lo), Sub(hi, lo)), R(255))
RescaleVolume(vol, lo, hi) ==
    [shape |-> vol.shape,
     slices |-> [k \in 1..Len(vol.slices) |->
                    LET F(v) == RescaleValue(v, lo, hi) IN MapImg(F, vol.slices[k])]]

\* seismic[:, :, k]: the 2D slice at index k of the last axis
SliceAt(vol, k) == [dims |-> <<vol.shape[1], vol.shape[2]>>, img |-> vol.slices[k + 1]]

\* cv2.resize(src, dsize) with dsize = (width, height): rows stay rows, columns stay
\* columns, and the result has height rows and width columns whatever src's shape
TargetDsize == <<160, 400>>
NativeDsize == <<300, 1259>>
\* faulty variant: dsize read as (height, width)
Resize_Swapped(src, dsize) == [dims |-> <<dsize[1], dsize[2]>>, img |-> src.img]
Resize(src, dsize) == [dims |-> <<dsize[2], dsize[1]>>, img |-> src.img]

\* (input_sample - 128.) / 43.   and   pred * 43. + 128.
StandardizeValue(v) == Div(Sub(v, R(128)), R(43))
DenormalizeValue(v) == Add(Mul(v, R(43)), R(128))
Standardize(a) == [dims |-> a.dims, img |-> MapImg(StandardizeValue, a.img)]
Denormalize(a) == [dims |-> a.dims, img |-> MapImg(DenormalizeValue, a.img)]

\* torch.tensor(a).unsqueeze(0).unsqueeze(0): batch and channel dimensions of 1
ToTensor(a) == [dims |-> <<1, 1>> \o a.dims, img |-> a.img]

\* faulty variant: the .T is forgotten
ToNumpyT_NoTranspose(t) == [dims |-> Tail(t.dims), img |-> t.img]

\* pred.cpu().detach().numpy()[0].T: drop the batch dimension, reverse the axes
ToNumpyT(t) == [dims |-> Reverse(Tail(t.dims)), img |-> TransposeImg(t.img)]

\* faulty variant: the rescaling done in place (SEISMIC_VOL -= minval, ...),
\* its result living in the operand's memory
ArithmeticResult_InPlace(name) == name

\* (SEISMIC_VOL - minval) / (maxval - minval) * 255: numpy's binary operators
\* allocate a new array for their result, whatever array `name` the operand is
ArithmeticResult(name) == "new"

\* the content of the array `name`, which held `old`, once an array whose
\* memory is `base` has come to hold `val`
SeenThrough(name, base, old, val) == IF base = name THEN val ELSE old

\* numpy assignment a[...] = b: b's shape must broadcast to the target's
CanBroadcast(src, dst) ==
    /\ Len(src) <= Len(dst)
    /\ \A k \in 1..Len(src) :
          LET s == src[Len(src) + 1 - k]
              d == dst[Len(dst) + 1 - k]
          IN  s = d \/ s = 1

\* faulty variant: seismic[:, :, k:] = a: the slices after k are overwritten too
WriteSlice_Onward(vol, k, a) ==
    [vol EXCEPT !.slices = [j \in 1..Len(vol.slices) |->
                               IF j >= k + 1 THEN a.img ELSE vol.slices[j]]]

\* seismic[:, :, k] = a
WriteSlice(vol, k, a) == [vol EXCEPT !.slices[k + 1] = a.img]

\* np.clip(v, 0, 255): minimum(maximum(v, 0), 255); NaN stays NaN
ClipValue(v) ==
    IF IsNaN(v) THEN NaN
    ELSE IF Less(v, R(0)) THEN R(0)
    ELSE IF Less(R(255), v) THEN R(255)
    ELSE v
ClipVolume(vol) ==
    [shape |-> vol.shape,
     slices |-> [k \in 1..Len(vol.slices) |-> MapImg(ClipValue, vol.slices[k])]]

\* ------------------------------------------------------------------ the model
\* denoiser(x) is ElasticViTMAE.forward on a (1, 1, H, W) tensor.  forward_decoder
\* pads the sequence to one token per image column ("image width of 160") and
\* projects each token to the samples of its trace, so the result is (1, W, H):
\* trace-major, the transpose of the image.  The network itself is opaque: f is
\* what it does to the values.  At invocation badAt it may misbehave: raise,
\* return another shape, or return the image row-major as (1, H, W).
ValueFns == {"identity", "overshoot", "nan", "inf"}
ApplyFn(f, v) ==
    CASE f = "identity" -> v
      [] f = "overshoot" -> Mul(v, R(50))
      [] f = "nan" -> NaN
      [] f = "inf" -> PInf

Raises(m, k) == m.bad = "raise" /\ m.badAt = k
Forward(m, t, k) ==
    LET F(v) == ApplyFn(m.f, v)
        out == MapImg(F, t.img)
    IN  IF m.badAt = k /\ m.bad = "shape"
            THEN [dims |-> <<1, 80, 200>>, img |-> TransposeImg(out)]
        ELSE IF m.badAt = k /\ m.bad = "layout"
            THEN [dims |-> <<1, t.dims[3], t.dims[4]>>, img |-> out]
        ELSE [dims |-> <<1, t.dims[4], t.dims[3]>>, img |-> TransposeImg(out)]

\* ------------------------------------------------------------------- inputs
RawValues == {NaN} \cup {R(v) : v \in 0..MaxRaw}
VolumeShapes(n) == {<<1259, 300, n>>, <<300, 1259, n>>, <<4, 5, n>>}
\* (in Init) slice k holds p[k] everywhere but in its upper right quadrant, which holds t
Denoisers(n) ==
    {[f |-> f, badAt |-> -1, bad |-> "none"] : f \in ValueFns}
    \cup {[f |-> f, badAt |-> k, bad |-> b] :
            f \in ValueFns, k \in 0..(n - 1), b \in {"raise", "shape", "layout"}}

\* ------------------------------------------------------- the Predict cell
CellIdle ==
    /\ SEISMIC_VOL = NoVolume /\ denoiser = [f |-> "identity", badAt |-> -1, bad |-> "none"]
    /\ minval = Undefined /\ maxval = Undefined /\ seismic = NoVolume /\ i = 0
    /\ input_sample = NoArray /\ x = NoArray /\ pred = NoArray
    /\ SEISMIC_PRED = NoVolume /\ pc = "idle" /\ err = "" /\ calls = <<>> /\ writes = <<>>
    /\ seismic_base = "" /\ vpc = "idle" /\ figure = NoFigure

LoaderIdle ==
    /\ df = [columns |-> <<>>, rows |-> <<>>] /\ original_shape = <<>>
    /\ array = <<>> /\ lpc = "idle"

Init ==
    /\ LoaderIdle
    /\ \E n \in 1..MaxSlices :
         /\ SEISMIC_VOL \in {[shape |-> sh, slices |-> [k \in 1..n |-> Img(p[k], t, p[k], p[k])]] :
                                sh \in VolumeShapes(n), p \in [1..n -> RawValues], t \in RawValues}
         /\ denoiser \in Denoisers(n)
    /\ minval = Undefined /\ maxval = Undefined /\ seismic = NoVolume /\ i = 0
    /\ input_sample = NoArray /\ x = NoArray /\ pred = NoArray
    /\ SEISMIC_PRED = NoVolume /\ pc = "rescale" /\ err = "" /\ calls = <<>> /\ writes = <<>>
    /\ seismic_base = "" /\ vpc = "idle" /\ figure = NoFigure

\* lines 425-427
Rescale ==
    /\ pc = "rescale"
    /\ vpc = "idle"
    /\ minval' = nanmin(SEISMIC_VOL)
    /\ maxval' = nanmax(SEISMIC_VOL)
    /\ seismic' = RescaleVolume(SEISMIC_VOL, nanmin(SEISMIC_VOL), nanmax(SEISMIC_VOL))
    /\ seismic_base' = ArithmeticResult("SEISMIC_VOL")
    /\ SEISMIC_VOL' = SeenThrough("SEISMIC_VOL", seismic_base', SEISMIC_VOL, seismic')
    /\ i' = 0
    /\ pc' = IF 0 < NSlices(SEISMIC_VOL) THEN "resize" ELSE "clip"
    /\ UNCHANGED <<denoiser, input_sample, x, pred, SEISMIC_PRED, err, calls, writes>>
    /\ UNCHANGED <<loaderVars, viewVars>>

\* line 434
ResizeIn ==
    /\ pc = "resize"
    /\ input_sample' = Resize(SliceAt(seismic, i), TargetDsize)
    /\ pc' = "standardize"
    /\ UNCHANGED <<SEISMIC_VOL, denoiser, minval, maxval, seismic, seismic_base, i, x, pred,
                   SEISMIC_PRED, err, calls, writes>>
    /\ UNCHANGED <<loaderVars, viewVars>>

\* line 436
StandardizeStep ==
    /\ pc = "standardize"
    /\ input_sample' = Standardize(input_sample)
    /\ pc' = "tensor"
    /\ UNCHANGED <<SEISMIC_VOL, denoiser, minval, maxval, seismic, seismic_base, i, x, pred,
                   SEISMIC_PRED, err, calls, writes>>
    /\ UNCHANGED <<loaderVars, viewVars>>

\* lines 438-440
TensorStep ==
    /\ pc = "tensor"
    /\ x' = ToTensor(input_sample)
    /\ pc' = "invoke"
    /\ UNCHANGED <<SEISMIC_VOL, denoiser, minval, maxval, seismic, seismic_base, i, input_sample, pred,
                   SEISMIC_PRED, err, calls, writes>>
    /\ UNCHANGED <<loaderVars, viewVars>>

\* line 442: the model's exception, if any, leaves the loop and the cell
Invoke ==
    /\ pc = "invoke"
    /\ calls' = Append(calls, i)
    /\ IF Raises(denoiser, i)
          THEN /\ pc' = "failed"
               /\ err' = "ModelError"
               /\ pred' = pred
          ELSE /\ pc' = "denormalize"
               /\ err' = err
               /\ pred' = Forward(denoiser, x, i)
    /\ UNCHANGED <<SEISMIC_VOL, denoiser, minval, maxval, seismic, seismic_base, i, input_sample, x,
                   SEISMIC_PRED, writes>>
    /\ UNCHANGED <<loaderVars, viewVars>>

\* line 444
DenormalizeStep ==
    /\ pc = "denormalize"
    /\ pred' = Denormalize(pred)
    /\ pc' = "numpy"
    /\ UNCHANGED <<SEISMIC_VOL, denoiser, minval, maxval, seismic, seismic_base, i, input_sample, x,
                   SEISMIC_PRED, err, calls, writes>>
    /\ UNCHANGED <<loaderVars, viewVars>>

\* line 446
NumpyStep ==
    /\ pc = "numpy"
    /\ pred' = ToNumpyT(pred)
    /\ pc' = "resizeback"
    /\ UNCHANGED <<SEISMIC_VOL, denoiser, minval, maxval, seismic, seismic_base, i, input_sample, x,
                   SEISMIC_PRED, err, calls, writes>>
    /\ UNCHANGED <<loaderVars, viewVars>>

\* line 447
ResizeBack ==
    /\ pc = "resizeback"
    /\ pred' = Resize(pred, NativeDsize)
    /\ pc' = "write"
    /\ UNCHANGED <<SEISMIC_VOL, denoiser, minval, maxval, seismic, seismic_base, i, input_sample, x,
                   SEISMIC_PRED, err, calls, writes>>
    /\ UNCHANGED <<loaderVars, viewVars>>

\* line 449, then the next turn of the for loop of line 431
Write ==
    /\ pc = "write"
    /\ IF CanBroadcast(pred.dims, SliceAt(seismic, i).dims)
          THEN /\ seismic' = WriteSlice(seismic, i, pred)
               /\ SEISMIC_VOL' = SeenThrough("SEISMIC_VOL", seismic_base, SEISMIC_VOL, seismic')
               /\ writes' = Append(writes, i)
               /\ i' = i + 1
               /\ pc' = IF i + 1 < NSlices(seismic) THEN "resize" ELSE "clip"
               /\ err' = err
          ELSE /\ pc' = "failed"
               /\ err' = "ValueError"
               /\ UNCHANGED <<SEISMIC_VOL, seismic, writes, i>>
    /\ UNCHANGED <<seismic_base, denoiser, minval, maxval, input_sample, x, pred,
                   SEISMIC_PRED, calls>>
    /\ UNCHANGED <<loaderVars, viewVars>>

\* line 451
Clip ==
    /\ pc = "clip"
    /\ SEISMIC_PRED' = ClipVolume(seismic)
    /\ pc' = "done"
    /\ UNCHANGED <<SEISMIC_VOL, denoiser, minval, maxval, seismic, seismic_base, i, input_sample, x,
                   pred, err, calls, writes>>
    /\ UNCHANGED <<loaderVars, viewVars>>

\* ---------------------------------------------------- visualize_seismic
\* the half of an axis of the given size in which index idx lies
Half(idx, size) == IF 2 * idx < size THEN 1 ELSE 2

\* numpy raises IndexError for an index outside its axis; volume.T has axes
\* (shape[3], shape[2], shape[1])
InBounds(volume, inline, crossline, timeslice) ==
    /\ inline < volume.shape[2]
    /\ crossline < volume.shape[3]
    /\ timeslice < volume.shape[1]

\* volume.T[:, inline, :]: for each index of the last axis, the column `inline`
\* of that slice (its two row halves); a view of the memory of `name`
InlineView(name, volume, inline) ==
    [base |-> name,
     dims |-> <<volume.shape[3], volume.shape[1]>>,
     rows |-> [k \in 1..Len(volume.slices) |->
                 LET h == Half(inline, volume.shape[2])
                 IN  <<volume.slices[k][1][h], volume.slices[k][2][h]>>]]

\* volume.T[crossline, :, :]: the transposed slice `crossline` of the last axis
CrosslineView(name, volume, crossline) ==
    [base |-> name,
     dims |-> <<volume.shape[2], volume.shape[1]>>,
     rows |-> TransposeImg(volume.slices[crossline + 1])]

\* volume.T[:, :, timeslice]: for each index of the last axis, the row
\* `timeslice` of that slice (its two column halves)
TimesliceView(name, volume, timeslice) ==
    [base |-> name,
     dims |-> <<volume.shape[3], volume.shape[2]>>,
     rows |-> [k \in 1..Len(volume.slices) |->
                 volume.slices[k][Half(timeslice, volume.shape[1])]]]

\* the (inline, crossline, timeslice) arguments tried: the notebook's own
\* (80, 200, 650), the same with a crossline the volume has, and the origin
VisualizeArgs ==
    {<<80, 200, 650>>, <<0, 0, 0>>} \cup {<<80, c, 650>> : c \in 0..(MaxSlices - 1)}

\* lines 370-387, called on SEISMIC_VOL before the Predict cell (line 402) and
\* on SEISMIC_PRED after it (line 473): the three views are taken and shown;
\* imshow, axhline and axvline only read
visualize_seismic ==
    /\ vpc = "idle"
    /\ pc \in {"rescale", "done"}
    /\ \E args \in VisualizeArgs :
         LET name == IF pc = "rescale" THEN "SEISMIC_VOL" ELSE "SEISMIC_PRED"
             volume == IF pc = "rescale" THEN SEISMIC_VOL ELSE SEISMIC_PRED
             inline == args[1]
             crossline == args[2]
             timeslice == args[3]
         IN  IF InBounds(volume, inline, crossline, timeslice)
             THEN /\ figure' = [iline |-> InlineView(name, volume, inline),
                                xline |-> CrosslineView(name, volume, crossline),
                                ts |-> TimesliceView(name, volume, timeslice)]
                  /\ vpc' = "plotted"
             ELSE /\ figure' = NoFigure
                  /\ vpc' = "raised"
    /\ UNCHANGED <<SEISMIC_VOL, denoiser, minval, maxval, seismic, seismic_base, i,
                   input_sample, x, pred, SEISMIC_PRED, pc, err, calls, writes>>
    /\ UNCHANGED loaderVars

\* line 388: the function returns None (or its IndexError has been reported);
\* its locals are gone
VisualizeReturn ==
    /\ vpc \in {"plotted", "raised"}
    /\ vpc' = "idle"
    /\ figure' = NoFigure
    /\ UNCHANGED <<SEISMIC_VOL, denoiser, minval, maxval, seismic, seismic_base, i,
                   input_sample, x, pred, SEISMIC_PRED, pc, err, calls, writes>>
    /\ UNCHANGED loaderVars

Next ==
    \/ Rescale
    \/ ResizeIn
    \/ StandardizeStep
    \/ TensorStep
    \/ Invoke
    \/ DenormalizeStep
    \/ NumpyStep
    \/ ResizeBack
    \/ Write
    \/ Clip
    \/ visualize_seismic
    \/ VisualizeReturn

Spec == Init /\ [][Next]_vars

\* ------------------------------------------------------------ the loader
\* A table is its column names and its rows, each row a sequence of cells.
RECURSIVE SortedSeq(_)
SortedSeq(S) ==
    IF S = {} THEN <<>>
    ELSE LET m == CHOOSE a \in S : \A b \in S : a <= b
         IN  <<m>> \o SortedSeq(S \ {m})

\* faulty variant: the index columns are kept
DropColumns_KeepsIndex(t, names) == t

\* df.drop(columns=names): the columns not named, in their order
DropColumns(t, names) ==
    LET keep == SortedSeq({k \in 1..Len(t.columns) : t.columns[k] \notin names})
    IN  [columns |-> [k \in 1..Len(keep) |-> t.columns[keep[k]]],
         rows |-> [r \in 1..Len(t.rows) |-> [k \in 1..Len(keep) |-> t.rows[r][keep[k]]]]]

RECURSIVE Flatten(_)
Flatten(rows) == IF rows = <<>> THEN <<>> ELSE Head(rows) \o Flatten(Tail(rows))

\* a.reshape(shape): numpy raises ValueError unless the sizes agree; else row-major
CanReshape(rows, shape) == Len(Flatten(rows)) = shape[1] * shape[2] * shape[3]
Reshape(rows, shape) ==
    LET flat == Flatten(rows)
    IN  [a \in 1..shape[1] |-> [b \in 1..shape[2] |-> [c \in 1..shape[3] |->
            flat[((a - 1) * shape[2] + (b - 1)) * shape[3] + c]]]]

\* inputs: nr rows of nc data cells (row r, data column c holds 10 r + c) with the
\* index columns 'Row' and 'Col' either leading or around the data columns
DataNames(nc) == SubSeq(<<"0", "1", "2", "3", "4", "5", "6", "7">>, 1, nc)
MakeTable(nr, nc, layout) ==
    IF layout = "lead"
    THEN [columns |-> <<"Row", "Col">> \o DataNames(nc),
          rows |-> [r \in 1..nr |-> <<-r, -100>> \o [c \in 1..nc |-> 10 * r + c]]]
    ELSE [columns |-> <<"Row">> \o DataNames(nc) \o <<"Col">>,
          rows |-> [r \in 1..nr |-> <<-r>> \o [c \in 1..nc |-> 10 * r + c] \o <<-100>>]]
Tables == {MakeTable(nr, nc, l) : nr \in 1..MaxRows, nc \in 1..MaxCols, l \in {"lead", "split"}}
Shapes == {<<a, b, c>> : a \in 1..MaxDim, b \in 1..MaxDim, c \in 1..MaxDim}

LoaderInit ==
    /\ CellIdle
    /\ df \in Tables
    /\ original_shape \in Shapes
    /\ array = <<>>
    /\ lpc = "start"

\* lines 341-348
parquet2array ==
    /\ lpc = "start"
    /\ LET data_only == DropColumns(df, {"Row", "Col"})
           reshaped_array == data_only.rows
       IN  IF CanReshape(reshaped_array, original_shape)
           THEN /\ array' = Reshape(reshaped_array, original_shape)
                /\ lpc' = "returned"
                /\ err' = err
           ELSE /\ array' = array
                /\ lpc' = "raised"
                /\ err' = "ValueError"
    /\ UNCHANGED <<df, original_shape>>
    /\ UNCHANGED <<SEISMIC_VOL, denoiser, minval, maxval, seismic, seismic_base, i, input_sample,
                   x, pred, SEISMIC_PRED, pc, calls, writes>>
    /\ UNCHANGED viewVars

LoaderNext == parquet2array

LoaderSpec == LoaderInit /\ [][LoaderNext]_vars

\* ================================================================== claims
InRange(v) == ~IsNaN(v) /\ ~Less(v, R(0)) /\ ~Less(R(255), v)
SliceShape(vol) == <<vol.shape[1], vol.shape[2]>>
Ended == pc \in {"done", "failed"}
UpTo(n) == [k \in 1..n |-> k - 1]
\* the model honours its contract at every invocation
ModelBehaves == denoiser.bad = "none"
\* the input has no invalid sample and at least two different values
PlainVolume == NaN \notin VolValues(SEISMIC_VOL) /\ Cardinality(VolValues(SEISMIC_VOL)) >= 2
\* the input has at least two different valid values
HasRange == Cardinality(Valid(VolValues(SEISMIC_VOL))) >= 2
\* every valid value of the volume is the same one
Degenerate(vol) == Cardinality(Valid(VolValues(vol))) = 1
\* the model has raised or returned a malformed result at index badAt
Misbehaved ==
    /\ denoiser.bad # "none"
    /\ \E n \in 1..Len(calls) : calls[n] = denoiser.badAt
    /\ pc # "invoke" \/ i > denoiser.badAt
\* what standardize, a value function f and denormalize make of a sample
Through(f, v) == DenormalizeValue(ApplyFn(f, StandardizeValue(v)))
\* the loader's table: its data cells, and the n-th of them in row order
DataCells(t) == Len(t.rows) * (Len(t.columns) - 2)
FlatIndex(a, b, c, shape) == ((a - 1) * shape[2] + (b - 1)) * shape[3] + c
DataCellNo(t, n) ==
    LET nc == Len(t.columns) - 2
    IN  10 * (((n - 1) \div nc) + 1) + (((n - 1) % nc) + 1)

\* C1: shape preservation.  For every input volume shape (here with a plain volume
\* and a model that honours its contract) the pipeline returns an output volume of
\* the input's shape: the slice about to be written at index i has the native 2D
\* shape of the slice extracted at i, the cell does not fail, and the result it
\* produces has the shape of SEISMIC_VOL.
C1_ShapePreserved ==
    (ModelBehaves /\ PlainVolume) =>
        /\ pc = "write" => pred.dims = SliceShape(SEISMIC_VOL)
        /\ pc # "failed"
        /\ pc = "done" => SEISMIC_PRED.shape = SEISMIC_VOL.shape

\* C2: clamping.  When the pipeline completes, every value of the output volume
\* lies within [0, 255], for every input volume of the data model (which may hold
\* NaN samples); stated here for the identity model and a volume with a range.
C2_AllValuesClamped ==
    (pc = "done" /\ ModelBehaves /\ denoiser.f = "identity" /\ HasRange) =>
        \A v \in VolValues(SEISMIC_PRED) : InRange(v)

\* C3: degenerate range.  When every valid value of the input volume is identical,
\* the pipeline fails with a DegenerateRangeError before the rescale division: no
\* rescaled buffer and no output exist, no slice is processed and the model is
\* never invoked.
C3_DegenerateRaises ==
    (Degenerate(SEISMIC_VOL) /\ ModelBehaves /\ pc # "rescale") =>
        /\ pc = "failed" /\ err = "DegenerateRangeError"
        /\ calls = <<>> /\ writes = <<>>
        /\ seismic = NoVolume /\ SEISMIC_PRED = NoVolume

\* C4: all-or-nothing failure.  Once the model has raised or returned a wrongly
\* shaped result at slice k, the cell has aborted at k with the error: no later
\* index is processed, no output volume is produced, and no buffer holding slices
\* 0..k-1 overwritten and the rest untouched is left behind.
C4_AllOrNothing ==
    (Misbehaved /\ PlainVolume /\ SliceShape(SEISMIC_VOL) = <<1259, 300>>) =>
        /\ pc = "failed" /\ err = "ModelError"
        /\ i = denoiser.badAt
        /\ SEISMIC_PRED = NoVolume
        /\ writes = <<>>

\* C5: the loader's shape check.  parquet2array drops the 'Row' and 'Col' columns;
\* when the remaining data cells number exactly s0*s1*s2 it returns an array of
\* exactly that shape holding the data cells in row order, and otherwise it raises
\* and returns no array.
C5_LoaderShapeCheck ==
    lpc # "start" =>
        IF DataCells(df) = original_shape[1] * original_shape[2] * original_shape[3]
        THEN /\ lpc = "returned"
             /\ Len(array) = original_shape[1]
             /\ \A a \in 1..original_shape[1] :
                  /\ Len(array[a]) = original_shape[2]
                  /\ \A b \in 1..original_shape[2] :
                       /\ Len(array[a][b]) = original_shape[3]
                       /\ \A c \in 1..original_shape[3] :
                            array[a][b][c] = DataCellNo(df, FlatIndex(a, b, c, original_shape))
        ELSE lpc = "raised" /\ err = "ValueError" /\ array = <<>>
\* C5 witness: a table one data value short of the expected shape has been refused
C5_Witness ==
    /\ lpc = "raised"
    /\ DataCells(df) = original_shape[1] * original_shape[2] * original_shape[3] - 1
    /\ array = <<>>

C7_GlobalRangeOnce ==
    LET S == {v \in VolValues(SEISMIC_VOL) : v[2] # 0}
    IN  /\ pc = "rescale" => calls = <<>> /\ writes = <<>>
        /\ pc # "rescale" =>
              IF S = {} THEN minval = NaN /\ maxval = NaN
              ELSE /\ minval \in S /\ \A v \in S : minval[1] * v[2] <= v[1] * minval[2]
                   /\ maxval \in S /\ \A v \in S : v[1] * maxval[2] <= maxval[1] * v[2]
\* C7 witness: in the loop, after slice 0 has been overwritten with values the
\* input never held, for a volume that holds a NaN and whose maximum is not in
\* slice 0
C7_Witness ==
    /\ pc = "write" /\ i >= 1
    /\ NaN \in VolValues(SEISMIC_VOL)
    /\ IsFinite(minval) /\ IsFinite(maxval) /\ Less(minval, maxval)
    /\ maxval \notin ImgValues(SEISMIC_VOL.slices[1])
    /\ \E v \in ImgValues(seismic.slices[1]) : IsFinite(v) /\ ~InRange(v)

\* the slice read at the start of iteration i is the rescaled original slice i
C8_ReadsOriginal ==
    \A c \in Cells :
        /\ pc = "resize" =>
              At(seismic.slices[i + 1], c)
                  = RescaleValue(At(SEISMIC_VOL.slices[i + 1], c), minval, maxval)
        /\ pc = "standardize" =>
              At(input_sample.img, c)
                  = RescaleValue(At(SEISMIC_VOL.slices[i + 1], c), minval, maxval)
\* a step of the loop changes the buffer at most at index i, and only the write does
C8_WriteFrame ==
    pc # "rescale" =>
        /\ seismic'.shape = seismic.shape
        /\ Len(seismic'.slices) = Len(seismic.slices)
        /\ \A k \in 1..Len(seismic.slices) :
              (pc # "write" \/ k # i + 1) => seismic'.slices[k] = seismic.slices[k]
\* C8: slices do not interact.  The write of iteration i changes only index i of
\* the buffer and leaves every other index unchanged, and the slice read at the
\* start of iteration j is the rescaled original slice j, whatever the earlier
\* iterations wrote.
C8_SlicesIndependent == []C8_ReadsOriginal /\ [][C8_WriteFrame]_vars
\* C8 witness: iteration 1 has read its slice after iteration 0 overwrote slice 0
\* with other values
C8_Witness ==
    /\ pc = "standardize" /\ i = 1 /\ writes = <<0>>
    /\ \A v \in ImgValues(input_sample.img) : IsFinite(v)
    /\ \E c \in Cells :
          At(seismic.slices[1], c) # RescaleValue(At(SEISMIC_VOL.slices[1], c), minval, maxval)
    /\ seismic.slices[1] # seismic.slices[2]

\* C9: complete sequential coverage.  For a volume with n slices and a model that
\* never fails, the indices are invoked and written in ascending order, one at a
\* time and once each, the cell ends after all n iterations, and the clamp comes
\* after all n writes.
C9_SequentialCoverage ==
    (ModelBehaves /\ PlainVolume) =>
        /\ calls \in {UpTo(Len(writes)), UpTo(Len(writes) + 1)}
        /\ writes = UpTo(i)
        /\ pc \in {"clip", "done"} => Len(writes) = NSlices(SEISMIC_VOL)
        /\ Ended => /\ pc = "done"
                    /\ calls = UpTo(NSlices(SEISMIC_VOL))
                    /\ writes = UpTo(NSlices(SEISMIC_VOL))

\* C10: fixed model input.  Whatever the slice's shape and index, the tensor
\* passed to the model is one batch of one channel of 400 rows by 160 columns
\* holding (s - 128) / 43 for the resized slice's samples s, and what leaves the
\* denormalization is y * 43 + 128 for the model's output y, before the resize back.
C10_FixedModelInput ==
    /\ pc = "invoke" =>
          /\ x.dims = <<1, 1, 400, 160>>
          /\ \A c \in Cells :
                LET s == At(seismic.slices[i + 1], c)
                IN  At(x.img, c) = IF s[2] = 0 THEN NaN
                                   ELSE Q(s[1] - 128 * s[2], 43 * s[2])
    /\ pc = "numpy" =>
          /\ pred.dims = Forward(denoiser, x, i).dims
          /\ pred.dims # <<1259, 300>>
          /\ \A c \in Cells :
                LET y == At(Forward(denoiser, x, i).img, c)
                IN  At(pred.img, c) = IF y[2] = 0 THEN y
                                      ELSE Q(y[1] * 43 + 128 * y[2], y[2])
\* C10 witness: a 4 x 5 slice has gone through the model and the denormalization
C10_Witness ==
    /\ pc = "numpy" /\ SliceShape(SEISMIC_VOL) = <<4, 5>>
    /\ ModelBehaves /\ denoiser.f = "overshoot"
    /\ \E c \in Cells : IsFinite(At(pred.img, c)) /\ ~InRange(At(pred.img, c))
    /\ \E c \in Cells : At(x.img, c) \notin {NaN, StandardizeValue(R(0))}
\* C11: the input volume is left unchanged: no step of the Predict cell
\* (rescaling, the per-slice writes, the clamp, an aborting failure) and no
\* step of visualize_seismic changes SEISMIC_VOL, the working buffer never
\* shares the input's memory, and visualize_seismic changes no volume at all.
C11_StepKeepsInput ==
    /\ SEISMIC_VOL' = SEISMIC_VOL
    /\ (vpc' # vpc) => (seismic' = seismic /\ SEISMIC_PRED' = SEISMIC_PRED)

C11_InputUnchanged == [](seismic_base # "SEISMIC_VOL") /\ [][C11_StepKeepsInput]_vars

\* an aborted run whose buffer was already overwritten and differs from the input
C11_Witness ==
    /\ pc = "failed"
    /\ writes # <<>>
    /\ seismic_base = "new"
    /\ seismic.slices # SEISMIC_VOL.slices
    /\ seismic.slices[1] # RescaleVolume(SEISMIC_VOL, minval, maxval).slices[1]

====
